---- MODULE Spec2Model ----
(***************************************************************************)
(* Session lifecycle and retry policy of the Instagram scraper.            *)
(*                                                                         *)
(* The model follows src/src/session_manager.py (SessionManager),          *)
(* src/src/instagram_client.py (rate_limit, retry_on_error,                *)
(* InstagramClient) and src/src/config.py (Config).  The remote service    *)
(* (instagrapi Client) and the file system are the environment: every call *)
(* into them draws its outcome from the set of outcomes that call can      *)
(* have, and is recorded in `log` together with that outcome.              *)
(***************************************************************************)
EXTENDS Integers, Sequences, FiniteSets, TLC

VARIABLES
    file,      \* content of config.SESSION_FILE on storage
    creds,     \* INSTAGRAM_USERNAME and INSTAGRAM_PASSWORD are both configured
    proxy,     \* config.get_proxy_url() is not None
    sm,        \* a SessionManager object exists
    client,    \* SessionManager.client, the instagrapi Client handle
    ic,        \* an InstagramClient object exists
    handle,    \* InstagramClient._client is set (it is then sm's client)
    pc,        \* "idle", "attempt" inside the retry loop of a guarded call,
               \* "w_..." at a statement of the warm-up loop, or "done" when
               \* the operation has returned or raised
    attempt,   \* loop variable of retry_on_error's wrapper
    op,        \* the operation running or last run
    file0,     \* the session file when that operation started
    client0,   \* the Client handle when that operation started
    log,       \* calls made by that operation, in order, with their outcomes;
               \* for a guarded call: the sleeps of the two wrappers, and per
               \* attempt the login() the client property made, if any, and
               \* the end of func(); for a warm-up: the calls of the
               \* statement of the loop last executed, after the elapsed
               \* time at which it was started
    result,    \* how the operation ended
    dur,       \* duration_seconds of the warm-up running
    now,       \* time.time() - start_time of that warm-up in whole seconds,
               \* told apart up to dur
    iters      \* iterations of the warm-up loop begun, told apart up to
               \* MaxIters

wvars == <<dur, now, iters>>

vars == <<file, creds, proxy, sm, client, ic, handle, pc, attempt, op, file0,
          client0, log, result, dur, now, iters>>

----------------------------------------------------------------------------
(* Bounds of the model *)

\* number of distinct sessions the remote service hands out
MaxSid == 1

\* longest warm-up, in seconds
MaxDur == 10

\* iterations of the warm-up loop that are counted
MaxIters == 2

\* longest stories tray
MaxTray == 2

(* Program constants *)

MIN_DELAY == 1
MAX_DELAY == 3
REQUEST_TIMEOUT == 30
MAX_RETRIES == 3
RETRY_DELAY == 5

----------------------------------------------------------------------------
(* Exceptions.  NoExc stands for normal completion. *)

NoExc == "none"

\* the two classes retry_on_error's first handler names
RateLimitKinds == {"RateLimitError", "PleaseWaitFewMinutes"}

\* classes its third handler (ClientError) catches once the first two
\* handlers have had their turn: ClientError itself and its subclasses
ClientErrorKinds == {"ClientError", "LoginRequired"}

\* everything else is only an Exception
OtherKinds == {"ValueError", "JSONDecodeError", "FileNotFoundError", "Exception"}

\* what a remote call of the instagrapi Client can raise
RemoteFailures ==
    RateLimitKinds \cup {"ChallengeRequired"} \cup ClientErrorKinds \cup {"Exception"}

RemoteOutcomes == {"ok"} \cup RemoteFailures

----------------------------------------------------------------------------
(* Events of the log: the call, its outcome, and a duration for sleeps *)

Ev(e, r) == [e |-> e, r |-> r, d |-> 0]

Sleep(e, d) == [e |-> e, r |-> "ok", d |-> d]

RECURSIVE CountEv(_, _)
CountEv(s, e) ==
    IF s = <<>> THEN 0
    ELSE (IF Head(s).e = e THEN 1 ELSE 0) + CountEv(Tail(s), e)

\* positions of the events named e
Pos(s, e) == {i \in 1..Len(s) : s[i].e = e}

Has(s, e) == Pos(s, e) # {}

HasR(s, e, r) == \E i \in Pos(s, e) : s[i].r = r

Min(a, b) == IF a < b THEN a ELSE b

\* how an operation stands: state, exception raised, value returned
Res(st, exc, val) == [st |-> st, exc |-> exc, val |-> val]

NoResult == Res("none", NoExc, "-")

\* 2 ** n
RECURSIVE Pow2(_)
Pow2(n) == IF n = 0 THEN 1 ELSE 2 * Pow2(n - 1)

----------------------------------------------------------------------------
(* Session settings and the session file *)

\* what Client.get_settings() returns after a login; dev tells whether it
\* holds a 'device_settings' entry
Settings == [sid : 1..MaxSid, dev : BOOLEAN]

NoSettings == [sid |-> 0, dev |-> FALSE]

\* the text json.dump(session_data, f, indent=2) writes for the settings s:
\* one member, a key and its value, for every key of the dict
json_dump(s) ==
    {<<"session", s.sid>>}
        \cup (IF s.dev THEN {<<"device_settings", s.sid>>} ELSE {})

\* the dict json.load(f) makes of the text t of a complete file
json_load(t) ==
    [sid |-> (CHOOSE m \in t : m[1] = "session")[2],
     dev |-> \E m \in t : m[1] = "device_settings"]

\* no text
NoText == {}

Absent == [kind |-> "absent", data |-> NoText]

\* a file json.load() cannot parse
Corrupt == [kind |-> "corrupt", data |-> NoText]

\* a file that open(..., 'w') truncated and json.dump() did not finish
Partial == [kind |-> "partial", data |-> NoText]

\* a file holding the whole text of the settings s
Valid(s) == [kind |-> "valid", data |-> json_dump(s)]

FileStates == {Absent, Corrupt, Partial} \cup {Valid(s) : s \in Settings}

\* the session file before the program first runs: none, one a previous run
\* wrote, or one that does not parse
InitialFiles == {Absent, Corrupt} \cup {Valid(s) : s \in Settings}

\* a freshly constructed instagrapi Client()
\* device 0 is the device a new Client generates for itself; device n > 0 is
\* the one stored with session n
NewClient ==
    [settings |-> NoSettings, device |-> 0, proxy |-> FALSE,
     timeout |-> 0, authed |-> FALSE]

----------------------------------------------------------------------------
(* SessionManager.  Each operator is one method: it takes the state the   *)
(* method reads and the outcomes of the calls it makes, and yields the    *)
(* exception that leaves it (NoExc for a normal return), the state it     *)
(* leaves behind and the calls it made.                                   *)

\* SessionManager._load_session_file: open() and json.load()
load_session_file(f) ==
    CASE f.kind = "valid"  -> [exc |-> NoExc, data |-> json_load(f.data)]
      [] f.kind = "absent" -> [exc |-> "FileNotFoundError", data |-> NoSettings]
      [] OTHER             -> [exc |-> "JSONDecodeError", data |-> NoSettings]

\* _setup_client without its try/except around the load of the device
\* settings: what the load raises leaves the constructor
setup_client_uncaught(px, f) ==
    LET c1  == [NewClient EXCEPT !.proxy = px, !.timeout = REQUEST_TIMEOUT]
        ev1 == (IF px THEN <<Ev("set_proxy", "ok")>> ELSE <<>>)
               \o <<Ev("set_timeout", "ok")>>
        ld  == load_session_file(f)
    IN  IF f.kind = "absent"
        THEN [exc |-> NoExc, client |-> c1, ev |-> ev1 \o <<Ev("exists", "no")>>]
        ELSE [exc |-> ld.exc,
              client |-> IF ld.data.dev THEN [c1 EXCEPT !.device = ld.data.sid] ELSE c1,
              ev |-> ev1 \o <<Ev("exists", "yes"),
                              Ev("load_file", IF ld.exc = NoExc THEN "ok" ELSE ld.exc)>>
                         \o (IF ld.data.dev THEN <<Ev("set_device", "ok")>> ELSE <<>>)]

\* _setup_client without its `if 'device_settings' in session_data` block:
\* the new client keeps the device it generated for itself
setup_client_device_skipped(px, f) ==
    LET c1  == [NewClient EXCEPT !.proxy = px, !.timeout = REQUEST_TIMEOUT]
        ev1 == (IF px THEN <<Ev("set_proxy", "ok")>> ELSE <<>>)
               \o <<Ev("set_timeout", "ok")>>
        ld  == load_session_file(f)
    IN  IF f.kind = "absent"
        THEN [exc |-> NoExc, client |-> c1, ev |-> ev1 \o <<Ev("exists", "no")>>]
        ELSE [exc |-> NoExc, client |-> c1,
              ev |-> ev1 \o <<Ev("exists", "yes"),
                              Ev("load_file", IF ld.exc = NoExc THEN "ok" ELSE ld.exc)>>]

\* SessionManager.__init__ and _setup_client, on a new Client()
setup_client(px, f) ==
    LET c1  == [NewClient EXCEPT !.proxy = px, !.timeout = REQUEST_TIMEOUT]
        ev1 == (IF px THEN <<Ev("set_proxy", "ok")>> ELSE <<>>)
               \o <<Ev("set_timeout", "ok")>>
        ld  == load_session_file(f)
    IN  IF f.kind = "absent"
        THEN [exc |-> NoExc, client |-> c1, ev |-> ev1 \o <<Ev("exists", "no")>>]
        ELSE LET ev2 == ev1 \o <<Ev("exists", "yes"),
                                 Ev("load_file", IF ld.exc = NoExc THEN "ok" ELSE ld.exc)>>
             IN  IF ld.exc # NoExc
                 THEN \* except Exception: pass
                      [exc |-> NoExc, client |-> c1, ev |-> ev2]
                 ELSE IF ld.data.dev
                 THEN [exc |-> NoExc,
                       client |-> [c1 EXCEPT !.device = ld.data.sid],
                       ev |-> ev2 \o <<Ev("set_device", "ok")>>]
                 ELSE [exc |-> NoExc, client |-> c1, ev |-> ev2]

\* _try_load_session without its `return True`: the probe that succeeds
\* falls off the end of the try block and the method returns None
try_load_session_no_return(c, f, probe) ==
    LET ld == load_session_file(f)
        c1 == [c EXCEPT !.settings = ld.data]
    IN  IF f.kind = "absent"
        THEN [ret |-> FALSE, exc |-> NoExc, client |-> c,
              ev |-> <<Ev("exists", "no")>>]
        ELSE IF ld.exc # NoExc
        THEN [ret |-> FALSE, exc |-> NoExc, client |-> c,
              ev |-> <<Ev("exists", "yes"), Ev("load_file", ld.exc)>>]
        ELSE [ret |-> FALSE, exc |-> NoExc,
              client |-> IF probe = "ok" THEN [c1 EXCEPT !.authed = TRUE] ELSE c1,
              ev |-> <<Ev("exists", "yes"), Ev("load_file", "ok"),
                       Ev("set_settings", "ok"), Ev("probe", probe)>>]

\* _try_load_session whose `except Exception` handler returns True: only
\* LoginRequired makes the session count as unusable
try_load_session_true_on_error(c, f, probe) ==
    LET ld == load_session_file(f)
        c1 == [c EXCEPT !.settings = ld.data]
    IN  IF f.kind = "absent"
        THEN [ret |-> FALSE, exc |-> NoExc, client |-> c,
              ev |-> <<Ev("exists", "no")>>]
        ELSE IF ld.exc # NoExc
        THEN [ret |-> TRUE, exc |-> NoExc, client |-> c,
              ev |-> <<Ev("exists", "yes"), Ev("load_file", ld.exc)>>]
        ELSE [ret |-> (probe # "LoginRequired"), exc |-> NoExc,
              client |-> IF probe = "ok" THEN [c1 EXCEPT !.authed = TRUE] ELSE c1,
              ev |-> <<Ev("exists", "yes"), Ev("load_file", "ok"),
                       Ev("set_settings", "ok"), Ev("probe", probe)>>]

\* SessionManager._try_load_session; probe is the outcome of
\* client.get_timeline_feed()
try_load_session(c, f, probe) ==
    LET ld == load_session_file(f)
        c1 == [c EXCEPT !.settings = ld.data]
    IN  IF f.kind = "absent"
        THEN [ret |-> FALSE, exc |-> NoExc, client |-> c,
              ev |-> <<Ev("exists", "no")>>]
        ELSE IF ld.exc # NoExc
        THEN \* except Exception: return False
             [ret |-> FALSE, exc |-> NoExc, client |-> c,
              ev |-> <<Ev("exists", "yes"), Ev("load_file", ld.exc)>>]
        ELSE LET ev2 == <<Ev("exists", "yes"), Ev("load_file", "ok"),
                          Ev("set_settings", "ok"), Ev("probe", probe)>>
             IN  IF probe = "ok"
                 THEN [ret |-> TRUE, exc |-> NoExc,
                       client |-> [c1 EXCEPT !.authed = TRUE], ev |-> ev2]
                 ELSE \* except LoginRequired / except Exception: return False
                      [ret |-> FALSE, exc |-> NoExc, client |-> c1, ev |-> ev2]

\* where a save can fail: before open() has touched the file (here in
\* mkdir()), in open() itself, or in json.dump(), after open() truncated it
SaveOutcomes == {"ok", "mkdir", "open", "dump"}

\* _save_session that makes its calls and leaves the file as it was (the
\* dump going to another path than session_file)
save_session_no_write(c, f, save) ==
    LET calls == <<"get_settings", "mkdir", "open", "dump">>
        last  == IF save = "ok" THEN 4
                 ELSE CHOOSE i \in 1..4 : calls[i] = save
    IN  [exc |-> NoExc, file |-> f,
         ev |-> [i \in 1..last |->
                    Ev(calls[i], IF calls[i] = save THEN "Exception" ELSE "ok")]]

\* _save_session opening the file with mode 'r+' and writing the members
\* over the text it holds: the members of the older text that the new one
\* does not have stay in the file
save_session_merged(c, f, save) ==
    LET calls == <<"get_settings", "mkdir", "open", "dump">>
        last  == IF save = "ok" THEN 4
                 ELSE CHOOSE i \in 1..4 : calls[i] = save
        ev    == [i \in 1..last |->
                     Ev(calls[i], IF calls[i] = save THEN "Exception" ELSE "ok")]
        f1    == CASE save = "ok"   ->
                         [kind |-> "valid", data |-> f.data \cup json_dump(c.settings)]
                   [] save = "dump" -> Partial
                   [] OTHER         -> f
    IN  [exc |-> NoExc, file |-> f1, ev |-> ev]

\* SessionManager._save_session; save names the call that raises, if any
save_session(c, f, save) ==
    LET calls == <<"get_settings", "mkdir", "open", "dump">>
        last  == IF save = "ok" THEN 4
                 ELSE CHOOSE i \in 1..4 : calls[i] = save
        ev    == [i \in 1..last |->
                     Ev(calls[i], IF calls[i] = save THEN "Exception" ELSE "ok")]
        f1    == CASE save = "ok"   -> Valid(c.settings)
                   [] save = "dump" -> Partial
                   [] OTHER         -> f
    IN  \* except Exception: logger.error
        [exc |-> NoExc, file |-> f1, ev |-> ev]

\* what HumanBehavior.warm_up_session can do to its caller
WarmOutcomes == {"ok", "Exception"}

\* _warm_up_session without its try/except: what the warm-up raises leaves it
warm_up_session_uncaught(warm) ==
    [exc |-> IF warm = "ok" THEN NoExc ELSE warm, ev |-> <<Ev("warm_up", warm)>>]

\* SessionManager._warm_up_session; warm is the outcome of
\* behavior.warm_up_session(duration)
warm_up_session(warm) ==
    \* except Exception: logger.warning
    [exc |-> NoExc, ev |-> <<Ev("warm_up", warm)>>]

\* Config.validate that tests nothing: it returns whatever is configured
validate_unchecked(cr) == NoExc

\* Config.validate; cr tells whether both INSTAGRAM_USERNAME and
\* INSTAGRAM_PASSWORD are set
validate(cr) == IF cr THEN NoExc ELSE "ValueError"

\* client.get_timeline_feed() as the probe of a restored session: it
\* succeeds, or raises LoginRequired, a rate-limit signal or anything else
ProbeOutcomes == {"ok", "LoginRequired", "PleaseWaitFewMinutes", "Exception"}

\* client.login(): it succeeds or raises one of each class the callers tell
\* apart
LoginOutcomes ==
    {"ok", "RateLimitError", "PleaseWaitFewMinutes", "ChallengeRequired",
     "ClientError", "Exception"}

\* the outcomes the calls of one login() can have
LoginInputs ==
    [probe : ProbeOutcomes,
     login : LoginOutcomes,
     news  : Settings,
     save  : SaveOutcomes,
     warm  : WarmOutcomes]

\* the outcomes of the calls login() would make, where it makes none of them
NoLogin ==
    [probe |-> "ok", login |-> "ok", news |-> [sid |-> 1, dev |-> FALSE],
     save |-> "ok", warm |-> "ok"]

\* inp with every outcome of a call that ev does not hold set as in NoLogin:
\* two inputs that agree on the calls made are the same run
Consumed(inp, ev) ==
    [probe |-> IF Has(ev, "probe") THEN inp.probe ELSE NoLogin.probe,
     login |-> IF Has(ev, "login") THEN inp.login ELSE NoLogin.login,
     news  |-> IF HasR(ev, "login", "ok") THEN inp.news ELSE NoLogin.news,
     save  |-> IF HasR(ev, "login", "ok") THEN inp.save ELSE NoLogin.save,
     warm  |-> IF Has(ev, "warm_up") THEN inp.warm ELSE NoLogin.warm]

\* the inputs of LoginInputs that can differ in a call login() makes on the
\* file f: the probe is called on a file that loads only, and a session is
\* returned and saved after a login that succeeded only
LoginRuns(f) ==
    UNION { [probe : IF f.kind = "valid" THEN ProbeOutcomes ELSE {NoLogin.probe},
             login : {lo},
             news  : IF lo = "ok" THEN Settings ELSE {NoLogin.news},
             save  : IF lo = "ok" THEN SaveOutcomes ELSE {NoLogin.save},
             warm  : WarmOutcomes] : lo \in LoginOutcomes }

\* SessionManager.login whose second `except Exception` handler logs and
\* goes on to `return self.client`: a failed client.login is swallowed
fresh_login_error_swallowed(c, f, cr, warm_up, inp, ev1) ==
    LET v   == validate(cr)
        w   == warm_up_session(inp.warm)
        c2  == [c EXCEPT !.settings = inp.news, !.authed = TRUE]
        s   == save_session(c2, f, inp.save)
        ev2 == ev1 \o <<Ev("validate", IF v = NoExc THEN "ok" ELSE v)>>
        ev3 == ev2 \o <<Ev("sleep_login", "ok"), Ev("login", inp.login)>>
    IN  IF v # NoExc
        THEN [exc |-> v, client |-> c, file |-> f, ev |-> ev2]
        ELSE IF inp.login # "ok"
        THEN [exc |-> NoExc, client |-> c, file |-> f, ev |-> ev3]
        ELSE IF ~warm_up
        THEN [exc |-> NoExc, client |-> c2, file |-> s.file, ev |-> ev3 \o s.ev]
        ELSE [exc |-> w.exc, client |-> c2, file |-> s.file,
              ev |-> ev3 \o s.ev \o w.ev]

\* SessionManager.login, its second try block: the fresh login on the client
\* c, after the calls ev1 of the first try block
fresh_login(c, f, cr, warm_up, inp, ev1) ==
    LET v   == validate(cr)
        w   == warm_up_session(inp.warm)
        c2  == [c EXCEPT !.settings = inp.news, !.authed = TRUE]
        s   == save_session(c2, f, inp.save)
        ev2 == ev1 \o <<Ev("validate", IF v = NoExc THEN "ok" ELSE v)>>
        ev3 == ev2 \o <<Ev("sleep_login", "ok"), Ev("login", inp.login)>>
    IN  IF v # NoExc
        THEN [exc |-> v, client |-> c, file |-> f, ev |-> ev2]
        ELSE IF inp.login # "ok"
        THEN \* except PleaseWaitFewMinutes / except Exception: raise
             [exc |-> inp.login, client |-> c, file |-> f, ev |-> ev3]
        ELSE IF s.exc # NoExc
        THEN [exc |-> s.exc, client |-> c2, file |-> s.file, ev |-> ev3 \o s.ev]
        ELSE IF ~warm_up
        THEN [exc |-> NoExc, client |-> c2, file |-> s.file, ev |-> ev3 \o s.ev]
        ELSE [exc |-> w.exc, client |-> c2, file |-> s.file,
              ev |-> ev3 \o s.ev \o w.ev]

\* SessionManager.login calling _save_session() in its first try block too:
\* a restored session is written back
restore_or_login_saved(t, f, cr, warm_up, inp) ==
    LET w   == warm_up_session(inp.warm)
        s   == save_session(t.client, f, "ok")
        ev1 == t.ev \o (IF t.exc = NoExc /\ t.ret THEN s.ev ELSE <<>>)
                    \o (IF t.exc = NoExc /\ t.ret /\ warm_up THEN w.ev ELSE <<>>)
    IN  IF t.exc = NoExc /\ t.ret /\ (warm_up => w.exc = NoExc)
        THEN [exc |-> NoExc, client |-> t.client, file |-> s.file, ev |-> ev1]
        ELSE fresh_login(t.client, f, cr, warm_up, inp, ev1)

\* SessionManager.login, its first try block, t being what
\* _try_load_session() did: return the restored client, or go on to the
\* fresh login when the session did not load or an exception was caught
restore_or_login(t, f, cr, warm_up, inp) ==
    LET w   == warm_up_session(inp.warm)
        ev1 == t.ev \o (IF t.exc = NoExc /\ t.ret /\ warm_up THEN w.ev ELSE <<>>)
    IN  IF t.exc = NoExc /\ t.ret /\ (warm_up => w.exc = NoExc)
        THEN [exc |-> NoExc, client |-> t.client, file |-> f, ev |-> ev1]
        ELSE fresh_login(t.client, f, cr, warm_up, inp, ev1)

\* SessionManager.login
login(c, f, cr, warm_up, inp) ==
    restore_or_login(try_load_session(c, f, inp.probe), f, cr, warm_up, inp)

\* SessionManager.logout; remote is the outcome of client.logout()
logout(c, f, remote) ==
    IF remote # "ok"
    THEN \* except Exception: logger.error, with the unlink never reached
         [exc |-> NoExc, client |-> c, file |-> f,
          ev |-> <<Ev("logout_remote", remote)>>]
    ELSE [exc |-> NoExc, client |-> [c EXCEPT !.authed = FALSE], file |-> Absent,
          ev |-> <<Ev("logout_remote", "ok"),
                   Ev("exists", IF f.kind = "absent" THEN "no" ELSE "yes")>>
                 \o (IF f.kind = "absent" THEN <<>> ELSE <<Ev("unlink", "ok")>>)]

----------------------------------------------------------------------------
(* HumanBehavior.  A method's operator takes the outcomes of the calls it *)
(* makes and yields the exception that leaves it, the calls it made and   *)
(* `least`, the seconds its sleeps last at least.  posts_viewed, which    *)
(* only feeds the closing log message, is left out.                       *)

\* time.sleep(5) of the loop's handler
COOLDOWN == 5

\* random.uniform(5, 15), the reading pause
READ_MIN == 5

READ_MAX == 15

\* random.randint(1, 3), the stories to view
STORIES_LOW == 1

STORIES_HIGH == 3

\* the shortest sleeps: scrolling, watching a story, the pause that ends a
\* story check, viewing an explore post
SCROLL_MIN == 1

WATCH_MIN == 2

PAUSE_MIN == 1

VIEW_MIN == 1

\* how a remote call of the warm-up fails: with a ClientError or with
\* anything else
WarmFailures == {"ClientError", "Exception"}

\* a feed call gives items, gives nothing, or fails
FeedOutcomes == {"ok", "empty"} \cup WarmFailures

\* client.media_like(): not called, or called and succeeding or failing
LikeOutcomes == {"none", "ok"} \cup WarmFailures

\* HumanBehavior._browse_timeline; like is the outcome of the media_like
\* calls of the batch
browse_timeline(tl, like) ==
    IF tl # "ok"
    THEN \* `if not timeline: return 0`, or except Exception: return 0
         [exc |-> NoExc, least |-> 0, ev |-> <<Ev("get_timeline_feed", tl)>>]
    ELSE [exc |-> NoExc, least |-> SCROLL_MIN,
          ev |-> <<Ev("get_timeline_feed", "ok")>>
                 \o (IF like = "none" THEN <<>> ELSE <<Ev("media_like", like)>>)
                 \o <<Ev("sleep_scroll", "ok")>>]

\* client.user_stories() for one entry of the tray
StoryOutcomes == {"ok"} \cup WarmFailures

\* the runs of one story check: the tray call fails or gives len entries
\* (each with a user and a pk); of a tray that is not empty
\* min(randint(1, 3), len) entries are selected and outs are the outcomes of
\* user_stories() for them
StoryRuns ==
    {[tray |-> t, len |-> 0, k |-> STORIES_LOW, outs |-> <<>>] :
        t \in {"ok"} \cup WarmFailures}
    \cup UNION { UNION { [tray : {"ok"}, len : {l}, k : {k},
                         outs : [1..Min(k, l) -> StoryOutcomes]] :
                            k \in STORIES_LOW..STORIES_HIGH } :
                    l \in 1..MaxTray }

\* the entries of st.outs that user_stories() returned a feed for
Watched(st) == {i \in DOMAIN st.outs : st.outs[i] = "ok"}

\* _check_stories without the try/except around user_stories(): the first
\* entry that fails ends the loop, in the method's own handler
check_stories_abort(st) ==
    LET n    == Min(st.k, st.len)
        bad  == {i \in 1..n : st.outs[i] # "ok"}
        last == IF bad = {} THEN n ELSE CHOOSE i \in bad : \A j \in bad : i <= j
    IN  IF st.tray # "ok"
        THEN [exc |-> NoExc, least |-> 0,
              ev |-> <<Ev("get_reels_tray_feed", st.tray)>>]
        ELSE [exc |-> NoExc,
              least |-> WATCH_MIN * Cardinality({i \in Watched(st) : i <= last})
                        + (IF bad = {} THEN PAUSE_MIN ELSE 0),
              ev |-> <<[e |-> "get_reels_tray_feed", r |-> "ok", d |-> st.len]>>
                     \o (IF st.len = 0 THEN <<>>
                         ELSE <<[e |-> "randint", r |-> "ok", d |-> st.k]>>
                              \o [i \in 1..last |-> Ev("user_stories", st.outs[i])])
                     \o (IF bad = {} THEN <<Ev("sleep_stories", "ok")>> ELSE <<>>)]

\* HumanBehavior._check_stories
check_stories(st) ==
    LET n == Min(st.k, st.len)
    IN  IF st.tray # "ok"
        THEN \* except Exception: logger.debug
             [exc |-> NoExc, least |-> 0,
              ev |-> <<Ev("get_reels_tray_feed", st.tray)>>]
        ELSE [exc |-> NoExc,
              least |-> WATCH_MIN * Cardinality(Watched(st)) + PAUSE_MIN,
              ev |-> <<[e |-> "get_reels_tray_feed", r |-> "ok", d |-> st.len]>>
                     \o (IF st.len = 0 THEN <<>>
                         ELSE <<[e |-> "randint", r |-> "ok", d |-> st.k]>>
                              \* except: pass, for each entry
                              \o [i \in 1..n |-> Ev("user_stories", st.outs[i])])
                     \o <<Ev("sleep_stories", "ok")>>]

\* HumanBehavior._browse_explore; "ok" is a page with posts to view
browse_explore(ex) ==
    IF ex # "ok"
    THEN [exc |-> NoExc, least |-> 0, ev |-> <<Ev("explore_page", ex)>>]
    ELSE [exc |-> NoExc, least |-> VIEW_MIN,
          ev |-> <<Ev("explore_page", "ok"), Ev("sleep_view", "ok")>>]

\* warm_up_session looping with `while True`
loop_test_always(nw, dr) == TRUE

\* the while condition of warm_up_session testing `<=`
loop_test_inclusive(nw, dr) == nw <= dr

\* the while condition of warm_up_session
loop_test(nw, dr) == nw < dr

\* the elapsed time d seconds after nw
later(nw, dr, d) == Min(nw + d, dr)

\* warm_up_session without the try/except in its loop: the exception ends
\* the warm-up
iteration_failed_uncaught(nw, dr) ==
    [pc |-> "done", now |-> nw, result |-> Res("raised", "Exception", "-"),
     ev |-> <<Ev("body", "Exception")>>]

\* the handler of warm_up_session's loop, reached by an exception raised in
\* the loop body outside the handlers of the three methods
iteration_failed(nw, dr) ==
    [pc |-> "w_check", now |-> later(nw, dr, COOLDOWN),
     result |-> Res("running", NoExc, "-"),
     ev |-> <<Ev("body", "Exception"), Sleep("sleep_cooldown", COOLDOWN)>>]

----------------------------------------------------------------------------
(* The guarded API call: rate_limit around retry_on_error around the      *)
(* method body.                                                           *)

\* max_retries and delay are None at every use (@retry_on_error()), so
\* `max_retries or config.MAX_RETRIES` and `delay or config.RETRY_DELAY`
\* are the configured values
retries == MAX_RETRIES

retry_delay == RETRY_DELAY

\* retry_on_error's rate-limit handler testing `attempt < retries`: the last
\* failure is slept on too and the loop runs out
retry_step_off_by_one(exc, a) ==
    CASE exc = NoExc ->
            [act |-> "return", ev |-> <<>>]
      [] exc \in RateLimitKinds ->
            IF a < retries
            THEN [act |-> "retry",
                  ev |-> <<Sleep("sleep_backoff", retry_delay * Pow2(a))>>]
            ELSE [act |-> "raise", ev |-> <<>>]
      [] exc = "ChallengeRequired" ->
            [act |-> "raise", ev |-> <<>>]
      [] exc \in ClientErrorKinds ->
            IF a < retries - 1
            THEN [act |-> "retry", ev |-> <<Sleep("sleep_backoff", retry_delay)>>]
            ELSE [act |-> "raise", ev |-> <<>>]
      [] OTHER ->
            [act |-> "raise", ev |-> <<>>]

\* retry_on_error with `except ClientError` placed before
\* `except ChallengeRequired`: a challenge, being a ClientError, is retried
retry_step_challenge_retried(exc, a) ==
    CASE exc = NoExc ->
            [act |-> "return", ev |-> <<>>]
      [] exc \in RateLimitKinds ->
            IF a < retries - 1
            THEN [act |-> "retry",
                  ev |-> <<Sleep("sleep_backoff", retry_delay * Pow2(a))>>]
            ELSE [act |-> "raise", ev |-> <<>>]
      [] exc \in ClientErrorKinds \cup {"ChallengeRequired"} ->
            IF a < retries - 1
            THEN [act |-> "retry", ev |-> <<Sleep("sleep_backoff", retry_delay)>>]
            ELSE [act |-> "raise", ev |-> <<>>]
      [] OTHER ->
            [act |-> "raise", ev |-> <<>>]

\* retry_on_error computing the rate-limit wait from the number of the
\* attempt about to be made: retry_delay * (2 ** (attempt + 1))
retry_step_exponent_shifted(exc, a) ==
    CASE exc = NoExc ->
            [act |-> "return", ev |-> <<>>]
      [] exc \in RateLimitKinds ->
            IF a < retries - 1
            THEN [act |-> "retry",
                  ev |-> <<Sleep("sleep_backoff", retry_delay * Pow2(a + 1))>>]
            ELSE [act |-> "raise", ev |-> <<>>]
      [] exc = "ChallengeRequired" ->
            [act |-> "raise", ev |-> <<>>]
      [] exc \in ClientErrorKinds ->
            IF a < retries - 1
            THEN [act |-> "retry", ev |-> <<Sleep("sleep_backoff", retry_delay)>>]
            ELSE [act |-> "raise", ev |-> <<>>]
      [] OTHER ->
            [act |-> "raise", ev |-> <<>>]

\* retry_on_error whose `except ClientError` handler reuses the rate-limit
\* wait: the sleep doubles after every failed attempt
retry_step_client_exponential(exc, a) ==
    CASE exc = NoExc ->
            [act |-> "return", ev |-> <<>>]
      [] exc \in RateLimitKinds \cup ClientErrorKinds ->
            IF a < retries - 1
            THEN [act |-> "retry",
                  ev |-> <<Sleep("sleep_backoff", retry_delay * Pow2(a))>>]
            ELSE [act |-> "raise", ev |-> <<>>]
      [] exc = "ChallengeRequired" ->
            [act |-> "raise", ev |-> <<>>]
      [] OTHER ->
            [act |-> "raise", ev |-> <<>>]

\* retry_on_error whose flat-delay handler is `except Exception` instead of
\* `except ClientError`: an exception of any other class is retried too
retry_step_unknown_retried(exc, a) ==
    CASE exc = NoExc ->
            [act |-> "return", ev |-> <<>>]
      [] exc \in RateLimitKinds ->
            IF a < retries - 1
            THEN [act |-> "retry",
                  ev |-> <<Sleep("sleep_backoff", retry_delay * Pow2(a))>>]
            ELSE [act |-> "raise", ev |-> <<>>]
      [] exc = "ChallengeRequired" ->
            [act |-> "raise", ev |-> <<>>]
      [] OTHER ->
            IF a < retries - 1
            THEN [act |-> "retry", ev |-> <<Sleep("sleep_backoff", retry_delay)>>]
            ELSE [act |-> "raise", ev |-> <<>>]

\* one pass through the handlers of retry_on_error's loop body, for func()
\* ending with exc in the attempt numbered a: what the wrapper does next
retry_step(exc, a) ==
    CASE exc = NoExc ->
            [act |-> "return", ev |-> <<>>]
      [] exc \in RateLimitKinds ->
            IF a < retries - 1
            THEN [act |-> "retry",
                  ev |-> <<Sleep("sleep_backoff", retry_delay * Pow2(a))>>]
            ELSE [act |-> "raise", ev |-> <<>>]
      [] exc = "ChallengeRequired" ->
            [act |-> "raise", ev |-> <<>>]
      [] exc \in ClientErrorKinds ->
            IF a < retries - 1
            THEN [act |-> "retry", ev |-> <<Sleep("sleep_backoff", retry_delay)>>]
            ELSE [act |-> "raise", ev |-> <<>>]
      [] OTHER ->
            [act |-> "raise", ev |-> <<>>]

\* client.hashtag_info(): it succeeds or raises one of each class
\* retry_on_error tells apart
ApiOutcomes ==
    {"ok", "RateLimitError", "PleaseWaitFewMinutes", "ChallengeRequired",
     "ClientError", "Exception"}

\* the keyword parameters InstagramClient.__init__ declares
InitKeywords == {"session_manager"}

\* the call InstagramClient(**kw) with no session_manager given: Python
\* binds the keywords to the parameters of __init__ before it runs its
\* body, which makes the SessionManager()
instagram_client_init(kw, px, f) ==
    IF kw \subseteq InitKeywords
    THEN setup_client(px, f)
    ELSE [exc |-> "TypeError", client |-> NewClient, ev |-> <<>>]

\* InstagramClient.client, l being what session_manager.login() did
logged_in(l) ==
    [exc |-> l.exc, handle |-> (l.exc = NoExc), client |-> l.client,
     file |-> l.file,
     ev |-> <<Ev("sm_login", IF l.exc = NoExc THEN "ok" ELSE l.exc)>> \o l.ev]

\* InstagramClient.client without `if not self._client`: every use logs in
client_property_no_cache(h, c, f, cr, lg) ==
    logged_in(login(c, f, cr, TRUE, lg))

\* InstagramClient.client: the property logs in when _client is not set
client_property(h, c, f, cr, lg) ==
    IF h
    THEN [exc |-> NoExc, handle |-> TRUE, client |-> c, file |-> f, ev |-> <<>>]
    ELSE logged_in(login(c, f, cr, TRUE, lg))

\* InstagramClient.get_hashtag_info, the decorated body, p being what
\* self.client did: client.hashtag_info() when it gave a client
api_call(p, api) ==
    IF p.exc # NoExc
    THEN p
    ELSE [p EXCEPT !.exc = IF api = "ok" THEN NoExc ELSE api,
                   !.ev = p.ev \o <<Ev("hashtag_info", api)>>]

\* InstagramClient.get_hashtag_info, the decorated body
get_hashtag_info(h, c, f, cr, lg, api) ==
    api_call(client_property(h, c, f, cr, lg), api)

----------
(* The state machine *)

OpRec(name, wu) == [name |-> name, warm_up |-> wu]

\* how an operator's outcome reads as the result of the operation
Ended(exc, val) ==
    IF exc = NoExc THEN Res("returned", NoExc, val) ELSE Res("raised", exc, "-")

Init ==
    /\ file \in InitialFiles
    /\ creds \in BOOLEAN
    /\ proxy \in BOOLEAN
    /\ sm = FALSE
    /\ client = NewClient
    /\ ic = FALSE
    /\ handle = FALSE
    /\ pc = "idle"
    /\ attempt = 0
    /\ op = OpRec("none", FALSE)
    /\ file0 = file
    /\ client0 = client
    /\ log = <<>>
    /\ result = NoResult
    /\ dur = 0
    /\ now = 0
    /\ iters = 0

\* SessionManager()
NewSessionManager ==
    /\ pc = "idle"
    /\ \E r \in {setup_client(proxy, file)} :
           /\ client' = r.client
           /\ log' = r.ev
           /\ result' = Ended(r.exc, "SessionManager")
           /\ sm' = (r.exc = NoExc)
    /\ ic' = FALSE
    /\ handle' = FALSE
    /\ pc' = "done"
    /\ op' = OpRec("SessionManager", FALSE)
    /\ file0' = file
    /\ client0' = client
    /\ UNCHANGED <<file, creds, proxy, attempt>>
    /\ UNCHANGED wvars

\* session_manager.login(warm_up), as main.py's login and warmup commands
\* call it
SMLogin ==
    /\ pc = "idle"
    /\ sm /\ ~ic
    /\ \E wu \in BOOLEAN, inp \in LoginRuns(file) :
          \E r \in {login(client, file, creds, wu, inp)} :
              /\ inp = Consumed(inp, r.ev)
              /\ client' = r.client
              /\ file' = r.file
              /\ log' = r.ev
              /\ result' = Ended(r.exc, "client")
              /\ op' = OpRec("login", wu)
    /\ pc' = "done"
    /\ file0' = file
    /\ client0' = client
    /\ UNCHANGED <<creds, proxy, sm, ic, handle, attempt>>
    /\ UNCHANGED wvars

\* session_manager.logout(), as main.py's logout command calls it
SMLogout ==
    /\ pc = "idle"
    /\ sm /\ ~ic
    /\ \E remote \in RemoteOutcomes :
          \E r \in {logout(client, file, remote)} :
              /\ client' = r.client
              /\ file' = r.file
              /\ log' = r.ev
              /\ result' = Ended(r.exc, "None")
    /\ pc' = "done"
    /\ op' = OpRec("logout", FALSE)
    /\ file0' = file
    /\ client0' = client
    /\ UNCHANGED <<creds, proxy, sm, ic, handle, attempt>>
    /\ UNCHANGED wvars

\* InstagramClient(), with its own SessionManager()
NewInstagramClient ==
    /\ pc = "idle"
    /\ \E r \in {setup_client(proxy, file)} :
           /\ client' = r.client
           /\ log' = r.ev
           /\ result' = Ended(r.exc, "InstagramClient")
           /\ sm' = (r.exc = NoExc)
           /\ ic' = (r.exc = NoExc)
    /\ handle' = FALSE
    /\ pc' = "done"
    /\ op' = OpRec("InstagramClient", FALSE)
    /\ file0' = file
    /\ client0' = client
    /\ UNCHANGED <<file, creds, proxy, attempt>>
    /\ UNCHANGED wvars

\* a call of a guarded method enters rate_limit's wrapper: the pacing sleep,
\* then the call of retry_on_error's wrapper, whose loop starts
ApiCall ==
    /\ pc = "idle"
    /\ ic
    /\ \E d \in MIN_DELAY..MAX_DELAY :
          log' = <<Sleep("sleep_pace", d)>>
    /\ pc' = "attempt"
    /\ attempt' = 0
    /\ result' = Res("running", NoExc, "-")
    /\ op' = OpRec("get_hashtag_info", TRUE)
    /\ file0' = file
    /\ client0' = client
    /\ UNCHANGED <<file, creds, proxy, sm, client, ic, handle>>
    /\ UNCHANGED wvars

\* retry_on_error looping with `while True` in place of
\* `for attempt in range(retries)`: a retry leaves the attempt number as it is
after_attempt_no_advance(exc, a, h) ==
    CASE h.act = "return" ->
            [pc |-> "done", attempt |-> a, result |-> Res("returned", NoExc, "value")]
      [] h.act = "raise" ->
            [pc |-> "done", attempt |-> a, result |-> Res("raised", exc, "-")]
      [] OTHER ->
            [pc |-> "attempt", attempt |-> a, result |-> Res("running", NoExc, "-")]

\* how the wrapper goes on after the attempt numbered a, whose func() ended
\* with exc and whose handler decided h
after_attempt(exc, a, h) ==
    CASE h.act = "return" ->
            [pc |-> "done", attempt |-> a, result |-> Res("returned", NoExc, "value")]
      [] h.act = "raise" ->
            [pc |-> "done", attempt |-> a, result |-> Res("raised", exc, "-")]
      [] h.act = "retry" /\ a + 1 < retries ->
            [pc |-> "attempt", attempt |-> a + 1, result |-> Res("running", NoExc, "-")]
      [] OTHER ->
            \* range(retries) is used up: return None
            [pc |-> "done", attempt |-> a, result |-> Res("returned", NoExc, "None")]

\* what the log of a guarded call keeps of one func()
Kept(ev) == SelectSeq(ev, LAMBDA x : x.e = "sm_login")

\* one iteration of retry_on_error's loop: func() and the handler it reaches
Attempt ==
    /\ pc = "attempt"
    /\ \E lg \in (IF handle THEN {NoLogin} ELSE LoginRuns(file)),
          api \in ApiOutcomes :
          \E r \in {get_hashtag_info(handle, client, file, creds, lg, api)} :
          \E h \in {retry_step(r.exc, attempt)} :
          \E n \in {after_attempt(r.exc, attempt, h)} :
              /\ lg = Consumed(lg, r.ev)
              /\ Has(r.ev, "hashtag_info") \/ api = "ok"
              /\ client' = r.client
              /\ file' = r.file
              /\ handle' = r.handle
              /\ log' = log \o Kept(r.ev) \o <<Ev("func", r.exc)>> \o h.ev
              /\ pc' = n.pc
              /\ attempt' = n.attempt
              /\ result' = n.result
    /\ UNCHANGED <<creds, proxy, sm, ic, op, file0, client0>>
    /\ UNCHANGED wvars

\* InstagramClient.close()
Close ==
    /\ pc = "idle"
    /\ ic
    /\ \E remote \in RemoteOutcomes :
          \E r \in {logout(client, file, remote)} :
              IF handle
              THEN /\ client' = r.client
                   /\ file' = r.file
                   /\ log' = r.ev
              ELSE /\ UNCHANGED <<client, file>>
                   /\ log' = <<>>
    /\ result' = Res("returned", NoExc, "None")
    /\ pc' = "done"
    /\ op' = OpRec("close", FALSE)
    /\ file0' = file
    /\ client0' = client
    /\ UNCHANGED <<creds, proxy, sm, ic, handle, attempt>>
    /\ UNCHANGED wvars

\* main.py's scrape command, in a process that has made no object yet, up
\* to its InstagramClient(warm_up=not no_warmup); what the call raises is
\* caught by the command's handler, which exits with status 1
Scrape ==
    /\ pc = "idle"
    /\ ~sm /\ ~ic
    /\ \E no_warmup \in BOOLEAN :
          \E r \in {instagram_client_init({"warm_up"}, proxy, file)} :
              /\ log' = r.ev \o <<Ev("InstagramClient",
                                      IF r.exc = NoExc THEN "ok" ELSE r.exc)>>
              /\ result' = IF r.exc = NoExc
                           THEN Res("returned", NoExc, "InstagramClient")
                           ELSE Res("raised", "SystemExit", "-")
              /\ sm' = (r.exc = NoExc)
              /\ ic' = (r.exc = NoExc)
              /\ client' = IF r.exc = NoExc THEN r.client ELSE client
              /\ op' = OpRec("scrape", ~no_warmup)
    /\ handle' = FALSE
    /\ pc' = "done"
    /\ file0' = file
    /\ client0' = client
    /\ UNCHANGED <<file, creds, proxy, attempt>>
    /\ UNCHANGED wvars

\* the durations warm_up_session is called with
Durations == {0, MaxDur}

\* the seconds a method whose sleeps last at least l can take, its remote
\* calls included; more than MaxDur is as much as MaxDur
Took(l) == IF l < MaxDur THEN l..MaxDur ELSE {l}

\* the calls ev of an action of the loop body, after the elapsed time nw at
\* which the action was started
started(nw, ev) == <<[e |-> "start", r |-> "ok", d |-> nw]>> \o ev

\* the variables a warm-up leaves alone
session == <<file, creds, proxy, sm, client, ic, handle, attempt, op, file0,
             client0>>

\* behavior.warm_up_session(duration) on the client of a login(), as
\* main.py's warmup command calls it: start_time is taken
WarmBegin ==
    /\ pc = "idle"
    /\ sm /\ ~ic /\ client.authed
    /\ \E d \in Durations : dur' = d
    /\ now' = 0
    /\ iters' = 0
    /\ pc' = "w_check"
    /\ log' = <<>>
    /\ result' = Res("running", NoExc, "-")
    /\ op' = OpRec("warm_up_session", FALSE)
    /\ file0' = file
    /\ client0' = client
    /\ UNCHANGED <<file, creds, proxy, sm, client, ic, handle, attempt>>

\* the while condition: another iteration, or the end of the warm-up
WarmCheck ==
    /\ pc = "w_check"
    /\ IF loop_test(now, dur)
       THEN /\ pc' = "w_timeline"
            /\ iters' = Min(iters + 1, MaxIters)
            /\ UNCHANGED result
       ELSE /\ pc' = "done"
            /\ result' = Res("returned", NoExc, "None")
            /\ UNCHANGED iters
    /\ log' = <<>>
    /\ UNCHANGED <<session, dur, now>>

\* posts_viewed += self._browse_timeline()
WarmTimeline ==
    /\ pc = "w_timeline"
    /\ \E tl \in FeedOutcomes, like \in LikeOutcomes :
          \E r \in {browse_timeline(tl, like)} :
          \E t \in Took(r.least) :
              /\ tl # "ok" => like = "none"
              /\ log' = started(now, r.ev)
              /\ now' = later(now, dur, t)
    /\ pc' = "w_stories"
    /\ UNCHANGED <<session, result, dur, iters>>

\* if random.random() < 0.3: self._check_stories()
WarmStories ==
    /\ pc = "w_stories"
    /\ \/ /\ log' = <<>>
          /\ UNCHANGED now
       \/ \E st \in StoryRuns :
             \E r \in {check_stories(st)} :
             \E t \in Took(r.least) :
                 /\ log' = started(now, r.ev)
                 /\ now' = later(now, dur, t)
    /\ pc' = "w_explore"
    /\ UNCHANGED <<session, result, dur, iters>>

\* if random.random() < 0.2: self._browse_explore()
WarmExplore ==
    /\ pc = "w_explore"
    /\ \/ /\ log' = <<>>
          /\ UNCHANGED now
       \/ \E ex \in FeedOutcomes :
             \E r \in {browse_explore(ex)} :
             \E t \in Took(r.least) :
                 /\ log' = started(now, r.ev)
                 /\ now' = later(now, dur, t)
    /\ pc' = "w_read"
    /\ UNCHANGED <<session, result, dur, iters>>

\* if random.random() < 0.3: time.sleep(random.uniform(5, 15)), the end of
\* the loop body
WarmRead ==
    /\ pc = "w_read"
    /\ \/ /\ log' = <<>>
          /\ UNCHANGED now
       \/ \E t \in READ_MIN..READ_MAX :
             /\ log' = started(now, <<Sleep("sleep_read", t)>>)
             /\ now' = later(now, dur, t)
    /\ pc' = "w_check"
    /\ UNCHANGED <<session, result, dur, iters>>

\* a statement of the loop body raises outside the three methods, which
\* catch what their own calls raise: except Exception of the loop
WarmRaise ==
    /\ pc \in {"w_timeline", "w_stories", "w_explore", "w_read"}
    /\ \E r \in {iteration_failed(now, dur)} :
          /\ pc' = r.pc
          /\ now' = r.now
          /\ result' = r.result
          /\ log' = r.ev
    /\ UNCHANGED <<session, dur, iters>>

\* the operation has ended and its caller goes on
Return ==
    /\ pc = "done"
    /\ pc' = "idle"
    /\ op' = OpRec("none", FALSE)
    /\ file0' = file
    /\ client0' = client
    /\ log' = <<>>
    /\ result' = NoResult
    /\ attempt' = 0
    /\ dur' = 0
    /\ now' = 0
    /\ iters' = 0
    /\ UNCHANGED <<file, creds, proxy, sm, client, ic, handle>>

Next ==
    \/ NewSessionManager
    \/ SMLogin
    \/ SMLogout
    \/ NewInstagramClient
    \/ ApiCall
    \/ Attempt
    \/ Close
    \/ Scrape
    \/ Return

Spec == Init /\ [][Next]_vars

\* main.py's warmup command when its SessionManager() and its
\* login(warm_up=False) have just returned the client: here with no session
\* file to start with and a fresh login that succeeded and was saved
InitWarm ==
    /\ creds = TRUE
    /\ proxy = FALSE
    /\ sm = TRUE
    /\ ic = FALSE
    /\ handle = FALSE
    /\ file0 = Absent
    /\ client0 = setup_client(proxy, file0).client
    /\ \E r \in {login(client0, file0, creds, FALSE,
                        [NoLogin EXCEPT !.news = [sid |-> 1, dev |-> TRUE]])} :
          /\ client = r.client
          /\ file = r.file
          /\ log = r.ev
          /\ result = Ended(r.exc, "client")
    /\ op = OpRec("login", FALSE)
    /\ pc = "done"
    /\ attempt = 0
    /\ dur = 0
    /\ now = 0
    /\ iters = 0

NextWarm ==
    \/ WarmBegin
    \/ WarmCheck
    \/ WarmTimeline
    \/ WarmStories
    \/ WarmExplore
    \/ WarmRead
    \/ WarmRaise
    \/ Return

SpecWarm == InitWarm /\ [][NextWarm]_vars

\* the values the variables take
TypeOK ==
    /\ file \in FileStates
    /\ creds \in BOOLEAN /\ proxy \in BOOLEAN
    /\ sm \in BOOLEAN /\ ic \in BOOLEAN /\ handle \in BOOLEAN
    /\ ic => sm
    /\ handle => ic
    /\ client.settings \in Settings \cup {NoSettings}
    /\ client.device \in 0..MaxSid
    /\ client.proxy \in BOOLEAN /\ client.authed \in BOOLEAN
    /\ client.timeout \in {0, REQUEST_TIMEOUT}
    /\ pc \in {"idle", "attempt", "done", "w_check", "w_timeline", "w_stories",
              "w_explore", "w_read"}
    /\ dur \in Durations
    /\ now \in 0..dur
    /\ iters \in 0..MaxIters
    /\ attempt \in 0..(retries - 1)
    /\ result.st \in {"none", "running", "returned", "raised"}
    /\ result.exc \in {NoExc, "SystemExit"} \cup RemoteFailures \cup OtherKinds
    /\ LoginRuns(file) \subseteq LoginInputs
    /\ pc = "idle" => log = <<>> /\ result = NoResult

----------------------------------------------------------------------------
(* Reading the log of the operation that is running or has just ended *)

Done(name) == pc = "done" /\ op.name = name

InCall == op.name = "get_hashtag_info" /\ pc \in {"attempt", "done"}

\* positions at which func() ended, and at which the wrappers slept
Funcs == Pos(log, "func")

Backoffs == SelectSeq(log, LAMBDA x : x.e = "sleep_backoff")

\* outcome of the first call named e, dflt if there is none
FirstR(e, dflt) ==
    IF Has(log, e)
    THEN log[CHOOSE i \in Pos(log, e) : \A j \in Pos(log, e) : i <= j].r
    ELSE dflt

\* the call of _save_session that raised, "ok" if none did
SaveR ==
    IF \E i \in 1..Len(log) : log[i].e \in {"mkdir", "open", "dump"} /\ log[i].r # "ok"
    THEN log[CHOOSE i \in 1..Len(log) :
                log[i].e \in {"mkdir", "open", "dump"} /\ log[i].r # "ok"].e
    ELSE "ok"

\* the outcomes the calls of the login() just ended had
InputsOfLog ==
    [probe |-> FirstR("probe", NoLogin.probe),
     login |-> FirstR("login", NoLogin.login),
     news  |-> IF HasR(log, "login", "ok") THEN client.settings ELSE NoLogin.news,
     save  |-> SaveR,
     warm  |-> FirstR("warm_up", NoLogin.warm)]

\* the log without the calls named in es
Without(es) == SelectSeq(log, LAMBDA x : x.e \notin es)

----------------------------------------------------------------------------
(* Claims *)

\* C1: in a guarded call whose every attempt so far failed with a rate-limit
\* signal, the failed attempt numbered a (from 0) with attempts remaining is
\* followed at once by a sleep of RETRY_DELAY * 2^a and a retry; func() is
\* invoked exactly MAX_RETRIES times; the last failure is followed by no
\* sleep and is raised to the caller, so no value is returned.
C1_RateLimitRetried ==
    (InCall /\ \A i \in Funcs : log[i].r \in RateLimitKinds) =>
        LET n == Cardinality(Funcs)
        IN  /\ n <= MAX_RETRIES
            /\ Len(Backoffs) = (IF n < MAX_RETRIES THEN n ELSE MAX_RETRIES - 1)
            /\ \A a \in 1..Len(Backoffs) :
                  Backoffs[a].d = RETRY_DELAY * Pow2(a - 1)
            /\ \A i \in Funcs :
                  i < Len(log) => log[i + 1].e = "sleep_backoff"
            /\ pc = "attempt" => n < MAX_RETRIES /\ attempt = n
            /\ pc = "done" =>
                  /\ n = MAX_RETRIES
                  /\ log[Len(log)].e = "func"
                  /\ result = Res("raised", log[Len(log)].r, "-")

C1_Witness ==
    /\ Done("get_hashtag_info")
    /\ Cardinality(Funcs) = MAX_RETRIES
    /\ \A i \in Funcs : log[i].r \in RateLimitKinds
    /\ result.st = "raised"
    /\ Len(Backoffs) = MAX_RETRIES - 1

\* C2: an attempt of a guarded call that fails with ChallengeRequired is the
\* last thing the call does: no sleep and no attempt follows it and the call
\* raises ChallengeRequired; when it is the first attempt, it is the only one.
C2_ChallengeNotRetried ==
    InCall =>
        \A i \in Funcs :
            log[i].r = "ChallengeRequired" =>
                /\ i = Len(log)
                /\ pc = "done"
                /\ result = Res("raised", "ChallengeRequired", "-")
                /\ (\A j \in Funcs : j >= i) => Cardinality(Funcs) = 1

C2_Witness ==
    /\ Done("get_hashtag_info")
    /\ Cardinality(Funcs) = 2
    /\ log[Len(log)] = Ev("func", "ChallengeRequired")
    /\ Len(Backoffs) = 1

\* C3: a login() that finds no usable stored session and whose remote login
\* call raises a rate-limit signal raises only after MAX_RETRIES login
\* attempts, with the sleeps RETRY_DELAY * 2^a between them.
C3_LoginRetried ==
    (/\ Done("login")
     /\ ~HasR(log, "probe", "ok")
     /\ \E i \in Pos(log, "login") : log[i].r \in RateLimitKinds) =>
        /\ CountEv(log, "login") = MAX_RETRIES
        /\ Len(Backoffs) = MAX_RETRIES - 1
        /\ \A a \in 1..Len(Backoffs) : Backoffs[a].d = RETRY_DELAY * Pow2(a - 1)
        /\ result.st = "raised" /\ result.exc \in RateLimitKinds

\* C4: after logout() has returned there is no stored session, whatever the
\* state before and whatever client.logout() did.
C4_LogoutClearsSession ==
    Done("logout") => file = Absent

\* C5: a login() whose probe of the stored session succeeds returns the
\* client, and has not validated the credentials, slept the pre-login delay
\* or called client.login; it has not touched the session file either.
C5_RestoreSkipsLogin ==
    (Done("login") /\ HasR(log, "probe", "ok")) =>
        /\ file0.kind = "valid"
        /\ result = Res("returned", NoExc, "client")
        /\ ~Has(log, "validate")
        /\ ~Has(log, "sleep_login")
        /\ ~Has(log, "login")
        /\ file = file0
        /\ client.settings = load_session_file(file0).data

C5_Witness ==
    /\ Done("login")
    /\ HasR(log, "probe", "ok")
    /\ ~creds
    /\ result.st = "returned"

\* C6: on a session file that does not parse, SessionManager() and login()
\* do what they do on no session file: the constructor returns the client
\* it sets up without a file, and login() takes the fresh-login path, makes
\* the same calls after looking for the file, ends the same way and leaves the
\* same client and the same file (the unparsable file where the other run
\* leaves none).
C6_CorruptAsAbsent ==
    /\ (/\ pc = "done"
        /\ op.name \in {"SessionManager", "InstagramClient"}
        /\ file0.kind \in {"corrupt", "partial"}) =>
            /\ result.st = "returned"
            /\ client = setup_client(proxy, Absent).client
    /\ (Done("login") /\ file0.kind \in {"corrupt", "partial"}) =>
            \E a \in {login(client0, Absent, creds, op.warm_up, InputsOfLog)} :
                /\ Has(log, "validate")
                /\ ~Has(log, "probe") /\ ~Has(log, "set_settings")
                /\ result = Ended(a.exc, "client")
                /\ client = a.client
                /\ file = (IF a.file = Absent THEN file0 ELSE a.file)
                /\ Without({"exists", "load_file"}) = Tail(a.ev)

C6_Witness ==
    /\ Done("login")
    /\ file0 = Corrupt
    /\ HasR(log, "load_file", "JSONDecodeError")
    /\ result = Res("returned", NoExc, "client")
    /\ client0 = setup_client(proxy, Corrupt).client

\* C7: when the stored session loads but its probe fails, in whatever way,
\* and credentials are configured, login() has probed once and called
\* client.login once, and returns the client if that call succeeded.
C7_ProbeFailureFreshLogin ==
    (/\ Done("login")
     /\ Has(log, "probe") /\ ~HasR(log, "probe", "ok")
     /\ creds) =>
        /\ CountEv(log, "probe") = 1
        /\ CountEv(log, "login") = 1
        /\ \A i \in Pos(log, "probe"), j \in Pos(log, "login") : i < j
        /\ HasR(log, "login", "ok") => result = Res("returned", NoExc, "client")

C7_Witness ==
    /\ Done("login")
    /\ HasR(log, "probe", "LoginRequired")
    /\ creds
    /\ HasR(log, "login", "ok")
    /\ result = Res("returned", NoExc, "client")

\* C8, as stated: with no stored session, credentials configured and the
\* remote login succeeding, login() has made one client.login call and then
\* one save call, and the session file is present when it returns.
C8_SessionFilePresent ==
    (/\ Done("login")
     /\ file0 = Absent
     /\ creds
     /\ HasR(log, "login", "ok")) =>
        /\ CountEv(log, "login") = 1
        /\ CountEv(log, "get_settings") = 1
        /\ \A i \in Pos(log, "login"), j \in Pos(log, "get_settings") : i < j
        /\ result.st = "returned"
        /\ file.kind # "absent"

\* C8, amended: with no stored session, credentials configured and the
\* remote login succeeding, login() has made one client.login call and then
\* one save call and returns the client; the session file then holds the new
\* session if no call of the save raised, is absent if mkdir() or open()
\* raised, and is an unfinished file if json.dump() raised.
C8_SessionFileIfSaved ==
    (/\ Done("login")
     /\ file0 = Absent
     /\ creds
     /\ HasR(log, "login", "ok")) =>
        /\ CountEv(log, "login") = 1
        /\ CountEv(log, "get_settings") = 1
        /\ \A i \in Pos(log, "login"), j \in Pos(log, "get_settings") : i < j
        /\ result = Res("returned", NoExc, "client")
        /\ SaveR = "ok" => file = Valid(client.settings) /\ client.settings \in Settings
        /\ SaveR \in {"mkdir", "open"} => file = Absent
        /\ SaveR = "dump" => file = Partial

C8_Witness ==
    /\ Done("login")
    /\ file0 = Absent
    /\ creds
    /\ HasR(log, "login", "ok")
    /\ HasR(log, "dump", "ok")
    /\ file = Valid(client.settings)
    /\ result.st = "returned"

\* C9: a login(warm_up=True) that has got as far as the warm-up returns the
\* client whatever the warm-up did, and ends, with the same client and the
\* same file after the same other calls, as login(warm_up=False) does.
C9_WarmUpBestEffort ==
    (Done("login") /\ op.warm_up /\ Has(log, "warm_up")) =>
        \E a \in {login(client0, file0, creds, FALSE, InputsOfLog)} :
            /\ result = Res("returned", NoExc, "client")
            /\ a.exc = NoExc
            /\ client = a.client
            /\ file = a.file
            /\ CountEv(log, "warm_up") = 1
            /\ log[Len(log)].e = "warm_up"
            /\ Without({"warm_up"}) = a.ev

C9_Witness ==
    /\ Done("login")
    /\ op.warm_up
    /\ HasR(log, "warm_up", "Exception")
    /\ result = Res("returned", NoExc, "client")

\* C10: in a guarded call a pacing sleep of MIN_DELAY to MAX_DELAY seconds
\* precedes every attempt: between two attempts, and before the first, there
\* is a pacing sleep, so n attempts come with n pacing sleeps.
C10_PacedEveryAttempt ==
    InCall =>
        /\ \A i \in Pos(log, "sleep_pace") : log[i].d \in MIN_DELAY..MAX_DELAY
        /\ \A j \in Funcs :
              \E i \in Pos(log, "sleep_pace") :
                  /\ i < j
                  /\ \A k \in Funcs : k < j => k < i
        /\ pc = "done" => CountEv(log, "sleep_pace") = Cardinality(Funcs)

\* the number (from 0) of the attempt whose func() ended at position p
AttemptAt(p) == Cardinality({j \in Funcs : j < p})

\* C11 as stated: the backoff sleep made before the attempt numbered i
\* (i >= 1), its predecessor having failed with a rate-limit signal, lasts
\* RETRY_DELAY * 2^i.
C11_BackoffBeforeAttempt ==
    InCall =>
        \A p \in Funcs :
            (log[p].r \in RateLimitKinds /\ p < Len(log)) =>
                log[p + 1] = Sleep("sleep_backoff",
                                   RETRY_DELAY * Pow2(AttemptAt(p) + 1))

\* C11: in a guarded call, whatever the earlier attempts did, an attempt
\* numbered a (from 0) that fails with a rate-limit signal and is not the
\* last one is followed at once by a sleep of RETRY_DELAY * 2^a, so the sleep
\* before the attempt numbered i >= 1 lasts RETRY_DELAY * 2^(i-1): 5 s
\* before attempt 1, 10 s before attempt 2.
C11_BackoffAfterAttempt ==
    InCall =>
        \A p \in Funcs :
            log[p].r \in RateLimitKinds =>
                /\ AttemptAt(p) < MAX_RETRIES - 1 =>
                      /\ p < Len(log)
                      /\ log[p + 1] = Sleep("sleep_backoff",
                                            RETRY_DELAY * Pow2(AttemptAt(p)))
                /\ AttemptAt(p) = MAX_RETRIES - 1 => p = Len(log)

C11_Witness ==
    /\ InCall
    /\ Cardinality(Funcs) = MAX_RETRIES
    /\ \E p \in Funcs :
          /\ AttemptAt(p) = 1
          /\ log[p].r \in RateLimitKinds
          /\ log[p + 1] = Sleep("sleep_backoff", 2 * RETRY_DELAY)
          /\ \E q \in Funcs : q < p /\ log[q].r \in ClientErrorKinds

\* C12: in a guarded call whose every attempt so far failed with a generic
\* client error, each failed attempt with attempts remaining is followed at
\* once by a sleep of RETRY_DELAY, the same after every attempt; func() is
\* invoked exactly MAX_RETRIES times and the last failure is raised.
C12_ClientErrorFlatDelay ==
    (InCall /\ \A i \in Funcs : log[i].r \in ClientErrorKinds) =>
        LET n == Cardinality(Funcs)
        IN  /\ n <= MAX_RETRIES
            /\ Len(Backoffs) = (IF n < MAX_RETRIES THEN n ELSE MAX_RETRIES - 1)
            /\ \A a \in 1..Len(Backoffs) : Backoffs[a].d = RETRY_DELAY
            /\ \A i \in Funcs :
                  i < Len(log) => log[i + 1] = Sleep("sleep_backoff", RETRY_DELAY)
            /\ pc = "attempt" => n < MAX_RETRIES /\ attempt = n
            /\ pc = "done" =>
                  /\ n = MAX_RETRIES
                  /\ log[Len(log)] = Ev("func", "ClientError")
                  /\ result = Res("raised", "ClientError", "-")

C12_Witness ==
    /\ Done("get_hashtag_info")
    /\ Cardinality(Funcs) = MAX_RETRIES
    /\ \A i \in Funcs : log[i].r = "ClientError"
    /\ Len(Backoffs) = MAX_RETRIES - 1
    /\ result = Res("raised", "ClientError", "-")

\* the exceptions none of retry_on_error's first three handlers names
Unclassified(exc) ==
    exc \notin {NoExc, "ChallengeRequired"} \cup RateLimitKinds \cup ClientErrorKinds

\* C13: an attempt of a guarded call that fails with an unclassified error
\* is the last thing the call does: no sleep and no attempt follows it, and
\* the call raises that error.
C13_UnclassifiedNotRetried ==
    InCall =>
        \A i \in Funcs :
            Unclassified(log[i].r) =>
                /\ i = Len(log)
                /\ pc = "done"
                /\ result = Res("raised", log[i].r, "-")

C13_Witness ==
    /\ Done("get_hashtag_info")
    /\ Cardinality(Funcs) = 1
    /\ log[Len(log)] = Ev("func", "Exception")
    /\ Backoffs = <<>>
    /\ result = Res("raised", "Exception", "-")

\* C14: a login() that reaches the fresh-login path (no stored session was
\* restored) with the credentials not configured raises the
\* missing-credentials error as the first thing that path does: it makes no
\* pre-login sleep, no client.login call and no call of the save, and the
\* session file and the client stay as the restore attempt left them.
C14_MissingCredentials ==
    (Done("login") /\ ~creds /\ ~HasR(log, "probe", "ok")) =>
        /\ result = Res("raised", "ValueError", "-")
        /\ log[Len(log)] = Ev("validate", "ValueError")
        /\ \A i \in 1..Len(log) :
              log[i].e \notin {"sleep_login", "login", "get_settings", "mkdir",
                               "open", "dump", "warm_up"}
        /\ file = file0
        /\ client = try_load_session(client0, file0, FirstR("probe", "ok")).client

C14_Witness ==
    /\ Done("login")
    /\ ~creds
    /\ file0.kind = "valid"
    /\ HasR(log, "probe", "LoginRequired")
    /\ result = Res("raised", "ValueError", "-")
    /\ file = file0

\* a constructor that sets up a new client has just ended
Constructed == pc = "done" /\ op.name \in {"SessionManager", "InstagramClient"}

\* C15 as stated: where the constructor applies stored device settings,
\* set_device comes before the proxy is set, before the request timeout is
\* set and before set_settings.
C15_DeviceFirst ==
    Constructed =>
        \A d \in Pos(log, "set_device") :
            \A i \in Pos(log, "set_proxy") \cup Pos(log, "set_timeout")
                        \cup Pos(log, "set_settings") : d < i

\* C15: a constructor that finds a stored session holding device settings
\* sets the proxy (when one is configured) and the request timeout on the
\* new client first and applies the device settings after them, as its last
\* call; the client then has the stored device and no session yet. The rest
\* of the session is restored by login() only, so set_settings is never
\* part of a constructor and comes after set_device on that client.
C15_DeviceBeforeSession ==
    /\ Constructed =>
          LET ld == load_session_file(file0)
          IN  (ld.exc = NoExc /\ ld.data.dev) =>
                  /\ CountEv(log, "set_device") = 1
                  /\ log[Len(log)] = Ev("set_device", "ok")
                  /\ CountEv(log, "set_timeout") = 1
                  /\ CountEv(log, "set_proxy") = (IF proxy THEN 1 ELSE 0)
                  /\ client.device = ld.data.sid
                  /\ client.settings = NoSettings
                  /\ ~client.authed
    /\ Has(log, "set_settings") => op.name = "login"
    /\ Has(log, "set_device") => Constructed

C15_Witness ==
    /\ Constructed
    /\ proxy
    /\ Has(log, "set_proxy")
    /\ log[Len(log)] = Ev("set_device", "ok")
    /\ client.device > 0

\* C16: a login() that called the save leaves a session file that is absent
\* or loads, and leaves a file that loaded before the save loadable.
C16_SaveAllOrNothing ==
    (Done("login") /\ Has(log, "get_settings")) =>
        /\ file.kind # "partial"
        /\ file0.kind = "valid" => file.kind = "valid"

\* C17: when login() ends after a save whose every call succeeded, loading
\* the session file gives the settings the client has, the ones saved, and
\* the file holds their text and nothing of the file the save found.
C17_SaveLoadRoundTrip ==
    (Done("login") /\ HasR(log, "dump", "ok")) =>
        /\ client.settings \in Settings
        /\ load_session_file(file) = [exc |-> NoExc, data |-> client.settings]
        /\ file = Valid(client.settings)
        /\ try_load_session(NewClient, file, "ok").client.settings = client.settings

C17_Witness ==
    /\ Done("login")
    /\ HasR(log, "dump", "ok")
    /\ file0.kind = "valid"
    /\ load_session_file(file0).data.dev
    /\ ~client.settings.dev
    /\ load_session_file(file).data = client.settings

\* a warm-up is running or has just ended
Warming == op.name = "warm_up_session"

\* C18: warm_up_session ends only when the elapsed time has reached
\* duration_seconds, and it ends by returning: whatever the remote calls of
\* the step just executed did, a failure included, the warm-up is still
\* running or the time is up; an exception raised in the loop body is
\* followed by the sleep of 5 s and by the next test of the loop condition.
C18_EndsOnlyByExpiry ==
    Warming =>
        /\ pc = "done" => now >= dur /\ result = Res("returned", NoExc, "None")
        /\ result.st # "raised"
        /\ (\E i \in 1..Len(log) : log[i].r \in WarmFailures) =>
              /\ pc \in {"w_check", "w_stories", "w_explore", "w_read"}
              /\ result = Res("running", NoExc, "-")
        /\ Has(log, "body") =>
              /\ log = <<Ev("body", "Exception"), Sleep("sleep_cooldown", COOLDOWN)>>
              /\ pc = "w_check"
              /\ now >= Min(COOLDOWN, dur)

C18_Witness ==
    /\ Warming
    /\ pc = "w_check"
    /\ log = <<Ev("body", "Exception"), Sleep("sleep_cooldown", COOLDOWN)>>
    /\ iters = MaxIters
    /\ now < dur

\* C19: a warm-up called with duration_seconds = 0 begins at most one
\* iteration of its loop (it begins none: the first test of the condition
\* ends the loop) and returns.
C19_ZeroBudget ==
    (Warming /\ dur = 0) =>
        /\ iters <= 1
        /\ pc \in {"w_check", "done"} => iters = 0
        /\ pc = "done" => result = Res("returned", NoExc, "None")

C19_Witness ==
    /\ Done("warm_up_session")
    /\ dur = 0
    /\ iters = 0
    /\ result = Res("returned", NoExc, "None")

\* the stories tray the story check just executed got, and the number
\* randint(1, 3) gave it
TrayLen == log[CHOOSE i \in Pos(log, "get_reels_tray_feed") : TRUE].d

Drawn == log[CHOOSE i \in Pos(log, "randint") : TRUE].d

\* C20: a story check whose tray is not empty calls user_stories() for
\* each of the min(randint(1, 3), len(tray)) entries selected, whether or
\* not the calls before failed, then makes its closing sleep and returns to
\* the loop body without raising.
C20_StoryFailureSwallowed ==
    (Warming /\ Has(log, "randint")) =>
        /\ CountEv(log, "user_stories") = Min(Drawn, TrayLen)
        /\ log[Len(log)] = Ev("sleep_stories", "ok")
        /\ pc = "w_explore"
        /\ result = Res("running", NoExc, "-")

C20_Witness ==
    /\ Warming
    /\ pc = "w_explore"
    /\ CountEv(log, "user_stories") = 2
    /\ \E i \in Pos(log, "user_stories") :
          /\ log[i].r \in WarmFailures
          /\ log[i + 1] = Ev("user_stories", "ok")
    /\ log[Len(log)] = Ev("sleep_stories", "ok")

\* C21: every step of a guarded call that is in its retry loop is one
\* invocation of func(), the one numbered `attempt`, with attempt <
\* MAX_RETRIES; the step ends the call or moves on to the next attempt
\* number, so a call makes between 1 and MAX_RETRIES invocations, one after
\* the other. The call ends by returning the value of its first successful
\* invocation, which is its last, or by raising what its last invocation
\* raised.
C21_GuardedCallTerminates ==
    [][ pc = "attempt" =>
          /\ attempt = Cardinality(Funcs)
          /\ attempt < MAX_RETRIES
          /\ Cardinality(Funcs') = attempt + 1
          /\ \/ pc' = "attempt" /\ attempt' = attempt + 1 /\ attempt' < MAX_RETRIES
             \/ pc' = "done"
          /\ pc' = "done" =>
                LET out == log'[CHOOSE i \in Funcs' : \A j \in Funcs' : j <= i].r
                IN  /\ result' = (IF out = NoExc
                                  THEN Res("returned", NoExc, "value")
                                  ELSE Res("raised", out, "-"))
                    /\ \A i \in Funcs : log[i].r # NoExc
          /\ pc' = "attempt" =>
                log'[CHOOSE i \in Funcs' : \A j \in Funcs' : j <= i].r # NoExc
      ]_vars

C21_Witness ==
    /\ Done("get_hashtag_info")
    /\ Cardinality(Funcs) = MAX_RETRIES
    /\ \E i, j \in Funcs :
          /\ log[i].r \in RateLimitKinds
          /\ log[j].r \in ClientErrorKinds
    /\ log[Len(log)] = Ev("func", NoExc)
    /\ result = Res("returned", NoExc, "value")

\* C22: in a guarded call, a login() made by the client property that
\* fails ends the call: the call raises what login() raised and makes no
\* further attempt, so it makes no second login().
C22_FailedLoginAborts ==
    InCall =>
        /\ \A i \in Pos(log, "sm_login") :
              log[i].r # "ok" =>
                  /\ log[i + 1] = Ev("func", log[i].r)
                  /\ i + 1 = Len(log)
                  /\ pc = "done"
                  /\ result = Res("raised", log[i].r, "-")
        /\ CountEv(log, "sm_login") <= 1

\* C23 as stated: no action of a warm-up (timeline browse, story check,
\* explore browse, reading pause) is started once the elapsed time has
\* reached duration_seconds.
C23_ExpiryBetweenActions ==
    Warming => \A i \in Pos(log, "start") : log[i].d < dur

\* C23: the expiry is tested once per iteration, before the timeline
\* browse: a timeline browse is never started once the elapsed time has
\* reached duration_seconds. The story check, the explore browse and the
\* reading pause of the iteration in progress are started without a test.
C23_ExpiryBetweenIterations ==
    Warming =>
        /\ pc = "w_timeline" => now < dur
        /\ \A i \in Pos(log, "start") :
              log[i + 1].e = "get_timeline_feed" => log[i].d < dur

C23_Witness ==
    /\ Warming
    /\ pc = "w_explore"
    /\ now >= dur
    /\ Len(log) > 2
    /\ log[1] = [e |-> "start", r |-> "ok", d |-> dur]
    /\ log[2].e = "get_reels_tray_feed"
    /\ Has(log, "user_stories")
    /\ log[Len(log)] = Ev("sleep_stories", "ok")

\* C24: in a login() whose probe of the restored session fails with
\* LoginRequired, the client that client.login() is called on, the one
\* _try_load_session() left, does not hold the settings of the session
\* file; when that login fails, the client login() leaves behind does not
\* hold them either.
C24_StaleStateDiscarded ==
    (Done("login") /\ HasR(log, "probe", "LoginRequired") /\ Has(log, "login")) =>
        LET stale == load_session_file(file0).data
            c     == try_load_session(client0, file0, "LoginRequired").client
        IN  /\ c.settings # stale
            /\ ~HasR(log, "login", "ok") => client.settings # stale

\* C25: the scrape command, with --no-warmup or without, constructs its
\* InstagramClient and goes on: the construction returns the object and the
\* command does not exit.
C25_ScrapeConstructsClient ==
    Done("scrape") =>
        /\ log[Len(log)] = Ev("InstagramClient", "ok")
        /\ result = Res("returned", NoExc, "InstagramClient")
        /\ ic

\* C26: once an InstagramClient holds a handle, an attempt of a guarded
\* call on it makes no login() and leaves the handle, the client and the
\* session file as they are, and the handle stays until another object is
\* constructed; the handle is set only by an attempt whose login() is the
\* one login() of the call that succeeded; close() calls logout exactly when
\* a handle is held.
C26_SingleHandle ==
    [][ /\ (handle /\ pc = "attempt") =>
              /\ handle'
              /\ CountEv(log', "sm_login") = CountEv(log, "sm_login")
              /\ client' = client
              /\ file' = file
        /\ (handle /\ op'.name \notin {"InstagramClient", "SessionManager"}) => handle'
        /\ (~handle /\ handle') =>
              /\ pc = "attempt"
              /\ Cardinality({i \in Pos(log', "sm_login") : log'[i].r = "ok"}) = 1
              /\ \A i \in Pos(log', "sm_login") : \A j \in Pos(log', "sm_login") :
                    log'[i].r = "ok" => j <= i
        /\ (pc = "idle" /\ op'.name = "close") =>
              (Has(log', "logout_remote") <=> handle)
      ]_vars

C26_Witness ==
    /\ Done("get_hashtag_info")
    /\ handle
    /\ ~Has(log, "sm_login")
    /\ Cardinality(Funcs) = 2
    /\ result = Res("returned", NoExc, "value")

\* C27: a login() returns the client exactly when its probe of the
\* restored session or its client.login() succeeded, and the client is then
\* authenticated; otherwise it raises; a warm-up is started only after one
\* of the two has succeeded.
C27_ReturnsOnlyAuthenticated ==
    Done("login") =>
        LET ok == {i \in 1..Len(log) : log[i].e \in {"probe", "login"} /\ log[i].r = "ok"}
        IN  /\ result.st = "returned" <=> ok # {}
            /\ result.st = "returned" =>
                  result = Res("returned", NoExc, "client") /\ client.authed
            /\ ok = {} => result.st = "raised" /\ result.exc # NoExc
            /\ \A w \in Pos(log, "warm_up") : \E i \in ok : i < w

C27_Witness ==
    /\ Done("login")
    /\ op.warm_up
    /\ HasR(log, "probe", "LoginRequired")
    /\ HasR(log, "login", "ok")
    /\ Has(log, "warm_up")
    /\ result = Res("returned", NoExc, "client")
    /\ client.authed

\* the calls of _save_session
SaveCalls == {"get_settings", "mkdir", "open", "dump"}

\* C28: in a login() the calls of the save come directly after a
\* client.login() that succeeded and nowhere else; a login() without a
\* successful client.login(), one that restored the session or one that
\* failed, makes none of them and leaves the session file as it was; the
\* warm-up leaves the file as the same login() without warm-up leaves it.
C28_WrittenOnlyAfterLogin ==
    Done("login") =>
        /\ \A i \in Pos(log, "get_settings") :
              i > 1 /\ log[i - 1] = Ev("login", "ok")
        /\ \A i \in 1..Len(log) :
              log[i].e \in SaveCalls \ {"get_settings"} =>
                  i > 1 /\ log[i - 1].e \in SaveCalls
        /\ ~HasR(log, "login", "ok") =>
              /\ file = file0
              /\ \A i \in 1..Len(log) : log[i].e \notin SaveCalls
        /\ file # file0 => HasR(log, "open", "ok")
        /\ file = login(client0, file0, creds, FALSE, InputsOfLog).file

C28_Witness ==
    /\ Done("login")
    /\ op.warm_up
    /\ file0.kind = "valid"
    /\ HasR(log, "probe", "ok")
    /\ HasR(log, "warm_up", "Exception")
    /\ file = file0
    /\ \A i \in 1..Len(log) : log[i].e \notin SaveCalls

====
